---- MODULE Spec2Model ----
(***************************************************************************)
(* istanbulize: conversion of V8 offset-based coverage (ScriptCov) to an   *)
(* Istanbul file coverage report.  The model follows the library source    *)
(* that is concatenated in src/src/test/fixtures.spec.ts (lines 101-559):  *)
(* the accumulator class IstambulizeScript (constructor, add, toIstanbul), *)
(* the function matcher matchFunctions, the range matcher getCount and     *)
(* addCount.                                                               *)
(*                                                                         *)
(* JavaScript values are modelled as follows.                              *)
(*   - An AST is the sequence of its nodes in the order in which           *)
(*     babelTraverse enters them (pre-order); a node is identified by its  *)
(*     position in that sequence (object identity), 0 is "no node".        *)
(*   - A Map / Set is a sequence in insertion order: a Map is a sequence   *)
(*     of [key, value] records, a Set a sequence without repetition.       *)
(*   - `undefined` for path is the empty sequence, a defined value v the   *)
(*     one-element sequence <<v>>.                                         *)
(*   - A thrown Error is an `err` field carrying the error message; a      *)
(*     backtick of a message is written as an apostrophe, as a string of   *)
(*     this language cannot hold a backtick.                               *)
(***************************************************************************)
EXTENDS Integers, Sequences, FiniteSets, TLC

VARIABLES
  ast,              \* this.ast: the nodes of the parsed file in traversal order
  roots,            \* this.roots: Set<FunctionLike>, node ids in insertion order
  rootTag,          \* node[ROOT_SYMBOL] for every node (0: undefined)
  path,             \* this.path: <<>> (undefined) or <<url>>
  functionNames,    \* this.functionNames: Map<FunctionNode, string>
  functionCounts,   \* this.functionCounts: Map<FunctionNode, number>
  statementCounts,  \* this.statementCounts: Map<Statement, number>
  nAdds,            \* number of add calls made so far
  lastCov,          \* argument of the last add call: <<>> or <<scriptCov>>
  funcs,            \* the local `funcs` of the last add call (root id -> index)
  err,              \* outcome of the last add call: "" or the Error message
  fnSum,            \* per function root: sum of matched ranges[0].count so far
  sumCov,           \* <<>> or <<the first snapshot added, or its sum with the second>>
  reports,          \* results of the last two toIstanbul calls since the last add
  lastName,         \* per node: <<>> or <<functionName of the entry last matched to it>>
  gc,               \* one call of the range matcher: arguments and result
  iz,               \* one call of istanbulize: options and result
  uw,               \* one call of unwrapScriptCov: arguments and result
  \* getCoverage (the fixture generator)
  state,                   \* the local `state`
  mainExecutionContextId,  \* the local of that name: <<>> (undefined) or <<id>>
  listeners,               \* the listeners registered on the client
  timeoutId,               \* the timer of GET_COVERAGE_TIMEOUT: "set", "fired", "cleared"
  promise,                 \* the promise returned: "pending", "resolved", "rejected"
  pc,                      \* position of the promise's executor
  query,                   \* position of onContextDestruction after the main context's end
  client,                  \* the client: "none" (undefined), "open", "closed"
  contexts,                \* per execution context of the inspected process: its life
  enabled,                 \* the Runtime domain of the inspected process is enabled
  events,                  \* events sent by the inspected process, not yet delivered
  uncaught                 \* the errors thrown out of a listener, the executor or the timer

callVars == <<gc, iz, uw>>

ghostVars == <<nAdds, lastCov, funcs, err, fnSum, sumCov, reports, lastName>>

harnessVars == <<state, mainExecutionContextId, listeners, timeoutId, promise,
                 pc, query, client, contexts, enabled, events, uncaught>>

vars == <<ast, roots, rootTag, path, functionNames, functionCounts,
          statementCounts, nAdds, lastCov, funcs, err, fnSum, sumCov,
          reports, lastName, gc, iz, uw, state,
          mainExecutionContextId, listeners, timeoutId, promise, pc, query,
          client, contexts, enabled, events, uncaught>>

accVars == <<ast, roots, rootTag, path, functionNames, functionCounts,
             statementCounts>>

(***************************************************************************)
(* Bounds of the model.                                                    *)
(***************************************************************************)
MaxAdds == 2
MaxFuncs == 2
GcMaxOffset == 4
GcMaxRanges == 2
GcMaxCount == 1

\* counts of the snapshots of a pair are raised by 0..MergeMaxRaise times the
\* position of the range
MergeMaxRaise == 1
UwMaxOffset == 4
UwMaxPrefix == 2
UwMaxSuffix == 1
MaxContexts == 2


(***************************************************************************)
(* JavaScript containers.                                                  *)
(***************************************************************************)
None == <<>>
Some(v) == <<v>>

RECURSIVE MapIndex(_, _, _)
MapIndex(m, k, i) ==
  IF i > Len(m) THEN 0
  ELSE IF m[i].key = k THEN i
  ELSE MapIndex(m, k, i + 1)

MapHas(m, k) == MapIndex(m, k, 1) # 0

\* Map.prototype.get for a key that is present
MapGet(m, k) == m[MapIndex(m, k, 1)].value

\* A re-inserting store: the key moves to the end of the iteration order.
MapSetReinsert(m, k, v) ==
  Append(SelectSeq(m, LAMBDA e : e.key # k), [key |-> k, value |-> v])

\* Map.prototype.set: an existing key keeps its place, a new key is appended
MapSet(m, k, v) ==
  IF MapHas(m, k)
  THEN [m EXCEPT ![MapIndex(m, k, 1)] = [key |-> k, value |-> v]]
  ELSE Append(m, [key |-> k, value |-> v])

MapKeys(m) == [i \in 1..Len(m) |-> m[i].key]

\* Set.prototype.add on a Set kept in insertion order
SetAdd(s, x) == IF \E i \in 1..Len(s) : s[i] = x THEN s ELSE Append(s, x)

\* No removal at all.
SpliceNone(a, index) == a

\* Array.prototype.splice(index, 1) (index counted from 1 here)
Splice1(a, index) == [i \in 1..(Len(a) - 1) |-> IF i < index THEN a[i] ELSE a[i + 1]]

(***************************************************************************)
(* Syntax trees, as @babel/parser produces them for the source texts       *)
(* below.  All sources are one line long, so a node's source location has  *)
(* line 1 and its offsets as columns.  `key` is the property of the parent *)
(* that holds the node.                                                    *)
(***************************************************************************)
Loc(start, end) ==
  [start |-> [line |-> 1, column |-> start], end |-> [line |-> 1, column |-> end]]

N(type, start, end, parent, key) ==
  [type |-> type, start |-> start, end |-> end, parent |-> parent, key |-> key,
   loc |-> Loc(start, end)]

\* "function f(){1;2;}": the program and f have the same span
Tree1 == <<
  N("Program", 0, 18, 0, "program"),
  N("FunctionDeclaration", 0, 18, 1, "body"),
  N("Identifier", 9, 10, 2, "id"),
  N("BlockStatement", 12, 18, 2, "body"),
  N("ExpressionStatement", 13, 15, 4, "body"),
  N("NumericLiteral", 13, 14, 5, "expression"),
  N("ExpressionStatement", 15, 17, 4, "body"),
  N("NumericLiteral", 15, 16, 7, "expression") >>

\* "x;function f(){y;function g(){z;}}": g is nested in f
Tree2 == <<
  N("Program", 0, 34, 0, "program"),
  N("ExpressionStatement", 0, 2, 1, "body"),
  N("Identifier", 0, 1, 2, "expression"),
  N("FunctionDeclaration", 2, 34, 1, "body"),
  N("Identifier", 11, 12, 4, "id"),
  N("BlockStatement", 14, 34, 4, "body"),
  N("ExpressionStatement", 15, 17, 6, "body"),
  N("Identifier", 15, 16, 7, "expression"),
  N("FunctionDeclaration", 17, 33, 6, "body"),
  N("Identifier", 26, 27, 9, "id"),
  N("BlockStatement", 29, 33, 9, "body"),
  N("ExpressionStatement", 30, 32, 11, "body"),
  N("Identifier", 30, 31, 12, "expression") >>

\* "var h=()=>{1;};h();": a function that is not a declaration
Tree3 == <<
  N("Program", 0, 19, 0, "program"),
  N("VariableDeclaration", 0, 15, 1, "body"),
  N("VariableDeclarator", 4, 14, 2, "declarations"),
  N("Identifier", 4, 5, 3, "id"),
  N("ArrowFunctionExpression", 6, 14, 3, "init"),
  N("BlockStatement", 10, 14, 5, "body"),
  N("ExpressionStatement", 11, 13, 6, "body"),
  N("NumericLiteral", 11, 12, 7, "expression"),
  N("ExpressionStatement", 15, 19, 1, "body"),
  N("CallExpression", 15, 18, 9, "expression"),
  N("Identifier", 15, 16, 10, "callee") >>

\* "for(var i;;)f();function f(){}": a declaration in a for head, an empty function
Tree4 == <<
  N("Program", 0, 30, 0, "program"),
  N("ForStatement", 0, 16, 1, "body"),
  N("VariableDeclaration", 4, 9, 2, "init"),
  N("VariableDeclarator", 8, 9, 3, "declarations"),
  N("Identifier", 8, 9, 4, "id"),
  N("ExpressionStatement", 12, 16, 2, "body"),
  N("CallExpression", 12, 15, 6, "expression"),
  N("Identifier", 12, 13, 7, "callee"),
  N("FunctionDeclaration", 16, 30, 1, "body"),
  N("Identifier", 25, 26, 9, "id"),
  N("BlockStatement", 28, 30, 9, "body") >>

Trees == {Tree1, Tree2, Tree3, Tree4}

NodeIds(tree) == 1..Len(tree)

(***************************************************************************)
(* The NodePath predicates of @babel/traverse used by the constructor.     *)
(***************************************************************************)
FunctionTypes ==
  {"FunctionDeclaration", "FunctionExpression", "ObjectMethod",
   "ArrowFunctionExpression", "ClassMethod", "ClassPrivateMethod"}

StatementTypes ==
  {"BlockStatement", "BreakStatement", "ContinueStatement", "DebuggerStatement",
   "DoWhileStatement", "EmptyStatement", "ExpressionStatement", "ForInStatement",
   "ForStatement", "FunctionDeclaration", "IfStatement", "LabeledStatement",
   "ReturnStatement", "SwitchStatement", "ThrowStatement", "TryStatement",
   "VariableDeclaration", "WhileStatement", "WithStatement", "ClassDeclaration",
   "ExportAllDeclaration", "ExportDefaultDeclaration", "ExportNamedDeclaration",
   "ForOfStatement", "ImportDeclaration"}

\* The program counted among the functions.
isFunctionOrProgram(tree, id) == tree[id].type \in FunctionTypes \cup {"Program"}

isFunction(tree, id) == tree[id].type \in FunctionTypes

isProgram(tree, id) == tree[id].type = "Program"

isBlockStatement(tree, id) == tree[id].type = "BlockStatement"

isFunctionDeclaration(tree, id) == tree[id].type = "FunctionDeclaration"

\* path.isStatement(): a variable declaration in the head of a for loop is none
isStatement(tree, id) ==
  /\ tree[id].type \in StatementTypes
  /\ ~ ( /\ tree[id].type = "VariableDeclaration"
         /\ tree[id].parent # 0
         /\ \/ /\ tree[tree[id].parent].type \in {"ForInStatement", "ForOfStatement"}
               /\ tree[id].key = "left"
            \/ /\ tree[tree[id].parent].type = "ForStatement"
               /\ tree[id].key = "init" )


(***************************************************************************)
(* IstambulizeScript.constructor: one traversal that tags every node with  *)
(* its root and registers the functions and the statements.                *)
(***************************************************************************)
\* Only function declarations are registered in functionCounts.
registersDeclaration(tree, id) == tree[id].type = "FunctionDeclaration"

\* the test that guards this.functionCounts.set(path.node, 0)
registersFunction(tree, id) == isFunction(tree, id)

\* the `enter` callback, applied to node `id` of `tree`
Enter(tree, id, st) ==
  LET isRoot == isFunction(tree, id) \/ isProgram(tree, id)
      parent == tree[id].parent
      parentRoot == IF parent # 0 THEN st.rootTag[parent] ELSE 0
      tagged ==
        IF isRoot
        THEN [st EXCEPT !.roots = SetAdd(st.roots, id), !.rootTag[id] = id]
        ELSE IF parentRoot # 0
             THEN [st EXCEPT !.rootTag[id] = parentRoot]
             ELSE st
      withFunction ==
        IF registersFunction(tree, id)
        THEN [tagged EXCEPT !.functionCounts = MapSet(tagged.functionCounts, id, 0)]
        ELSE tagged
  IN  IF isStatement(tree, id)
         /\ ~ (isBlockStatement(tree, id) \/ isFunctionDeclaration(tree, id))
      THEN [withFunction EXCEPT
              !.statementCounts = MapSet(withFunction.statementCounts, id, 0)]
      ELSE withFunction

RECURSIVE babelTraverse(_, _, _)
babelTraverse(tree, id, st) ==
  IF id > Len(tree) THEN st
  ELSE babelTraverse(tree, id + 1, Enter(tree, id, st))

Constructor(tree) ==
  LET fresh == [ast |-> tree,
                roots |-> <<>>,
                rootTag |-> [id \in NodeIds(tree) |-> 0],
                path |-> None,
                functionNames |-> <<>>,
                functionCounts |-> <<>>,
                statementCounts |-> <<>>]
  IN  babelTraverse(tree, 1, fresh)

(***************************************************************************)
(* getCount: the range matcher.                                            *)
(***************************************************************************)
\* A range that shares an end with the node does not enclose it.
EnclosesStrictly(rangeCov, node) ==
  rangeCov.startOffset < node.start /\ node.end < rangeCov.endOffset

Encloses(rangeCov, node) ==
  rangeCov.startOffset <= node.start /\ node.end <= rangeCov.endOffset

RECURSIVE getCountFrom(_, _, _)
getCountFrom(rangeCovs, node, i) ==
  IF i < 1 THEN [err |-> "Count not found", value |-> 0]
  ELSE IF Encloses(rangeCovs[i], node)
       THEN [err |-> "", value |-> rangeCovs[i].count]
       ELSE getCountFrom(rangeCovs, node, i - 1)

\* A scan from first to last: the first-listed enclosing range wins.
RECURSIVE getCountForwardFrom(_, _, _)
getCountForwardFrom(rangeCovs, node, i) ==
  IF i > Len(rangeCovs) THEN [err |-> "Count not found", value |-> 0]
  ELSE IF Encloses(rangeCovs[i], node)
       THEN [err |-> "", value |-> rangeCovs[i].count]
       ELSE getCountForwardFrom(rangeCovs, node, i + 1)

getCountForward(rangeCovs, node) == getCountForwardFrom(rangeCovs, node, 1)

getCount(rangeCovs, node) == getCountFrom(rangeCovs, node, Len(rangeCovs))

(***************************************************************************)
(* addCount.                                                               *)
(***************************************************************************)
\* A store of the new count alone, the old one forgotten.
addCountReplace(counts, node, count) ==
  IF ~ MapHas(counts, node)
  THEN [err |-> "UnknownNode", counts |-> counts]
  ELSE [err |-> "", counts |-> MapSet(counts, node, count)]

addCount(counts, node, count) ==
  IF ~ MapHas(counts, node)
  THEN [err |-> "UnknownNode", counts |-> counts]
  ELSE [err |-> "", counts |-> MapSet(counts, node, MapGet(counts, node) + count)]

(***************************************************************************)
(* matchFunctions: the function matcher.  funcNodes is the sequence of     *)
(* root ids, funcCovs the snapshot's functions; `remaining` holds indices  *)
(* into funcCovs, which stand for the FunctionCov objects, and the result  *)
(* maps a root id to such an index.                                        *)
(***************************************************************************)
\* A match by enclosure instead of equality.
SpanEncloses(funcRange, funcNode) ==
  funcRange.startOffset <= funcNode.start /\ funcNode.end <= funcRange.endOffset

SpanEquals(funcRange, funcNode) ==
  funcRange.startOffset = funcNode.start /\ funcRange.endOffset = funcNode.end

\* the inner loop: the last position of `remaining` whose entry matches, or 0
RECURSIVE matchedIndex(_, _, _, _)
matchedIndex(funcCovs, remaining, funcNode, i) ==
  IF i < 1 THEN 0
  ELSE IF SpanEquals(funcCovs[remaining[i]].ranges[1], funcNode) THEN i
  ELSE matchedIndex(funcCovs, remaining, funcNode, i - 1)

RECURSIVE matchLoop(_, _, _, _, _, _)
matchLoop(tree, funcNodes, funcCovs, k, remaining, matched) ==
  IF k > Len(funcNodes) THEN matched
  ELSE LET funcNode == funcNodes[k]
           mi == matchedIndex(funcCovs, remaining, tree[funcNode], Len(remaining))
       IN  IF mi # 0
           THEN matchLoop(tree, funcNodes, funcCovs, k + 1, Splice1(remaining, mi),
                          MapSet(matched, funcNode, remaining[mi]))
           ELSE matchLoop(tree, funcNodes, funcCovs, k + 1, remaining, matched)

matchFunctions(tree, funcNodes, funcCovs) ==
  matchLoop(tree, funcNodes, funcCovs, 1, [i \in 1..Len(funcCovs) |-> i], <<>>)

(***************************************************************************)
(* IstambulizeScript.add.                                                  *)
(***************************************************************************)
\* The first name observed is kept.
setFunctionNameOnce(names, node, functionName) ==
  IF MapHas(names, node) THEN names ELSE MapSet(names, node, functionName)

\* this.functionNames.set(node, funcCov.functionName)
setFunctionName(names, node, functionName) == MapSet(names, node, functionName)

\* first loop: the function counts and names of the matched roots
RECURSIVE functionLoop(_, _, _, _)
functionLoop(funcCovs, matched, i, st) ==
  IF i > Len(matched) \/ st.err # "" THEN st
  ELSE LET node == matched[i].key
           funcCov == funcCovs[matched[i].value]
       IN  IF st.ast[node].type # "Program"
           THEN LET r == addCount(st.functionCounts, node, funcCov.ranges[1].count)
                IN  IF r.err # ""
                    THEN [st EXCEPT !.err = r.err]
                    ELSE functionLoop(funcCovs, matched, i + 1,
                           [st EXCEPT
                              !.functionCounts = r.counts,
                              !.functionNames =
                                 setFunctionName(st.functionNames, node,
                                                 funcCov.functionName)])
           ELSE functionLoop(funcCovs, matched, i + 1, st)

\* A lookup that falls back to the first matched entry when the root has none.
funcsGetOrFirst(matched, root) ==
  IF MapHas(matched, root) THEN MapGet(matched, root)
  ELSE IF Len(matched) > 0 THEN matched[1].value ELSE 0

\* funcs.get(root): the index of the matched entry, 0 for undefined
funcsGet(matched, root) ==
  IF MapHas(matched, root) THEN MapGet(matched, root) ELSE 0

\* A store of the new count alone, the old one forgotten.
setStatementCountReplace(counts, statement, oldCount, count) ==
  MapSet(counts, statement, count)

\* this.statementCounts.set(statement, oldCount + count)
setStatementCount(counts, statement, oldCount, count) ==
  MapSet(counts, statement, oldCount + count)

\* The root of every tagged statement is the first root, the program.
statementRootOutermost(st, statement) ==
  IF st.rootTag[statement] = 0 THEN 0 ELSE st.roots[1]

\* (statement as any)[ROOT_SYMBOL], 0 for undefined
statementRoot(st, statement) == st.rootTag[statement]

\* second loop: the statement counts
RECURSIVE statementLoop(_, _, _, _)
statementLoop(funcCovs, matched, i, st) ==
  IF i > Len(st.statementCounts) \/ st.err # "" THEN st
  ELSE LET statement == st.statementCounts[i].key
           oldCount == st.statementCounts[i].value
           root == statementRoot(st, statement)
       IN  IF root = 0 THEN statementLoop(funcCovs, matched, i + 1, st)
           ELSE IF funcsGet(matched, root) = 0
                THEN statementLoop(funcCovs, matched, i + 1, st)
                ELSE LET funcCov == funcCovs[funcsGet(matched, root)]
                         r == getCount(funcCov.ranges, st.ast[statement])
                     IN  IF r.err # ""
                         THEN [st EXCEPT !.err = r.err]
                         ELSE statementLoop(funcCovs, matched, i + 1,
                                [st EXCEPT !.statementCounts =
                                   setStatementCount(st.statementCounts, statement,
                                                     oldCount, r.value)])

\* The first url recorded is kept.
setPathOnce(oldPath, url) == IF oldPath = None THEN Some(url) ELSE oldPath

\* this.path = scriptCov.url
setPath(oldPath, url) == Some(url)

\* add(scriptCov) on the accumulator st; the result carries the local funcs
\* and the message of the Error thrown, if any
add(st, scriptCov) ==
  LET matched == matchFunctions(st.ast, st.roots, scriptCov.functions)
      s0 == [ast |-> st.ast, roots |-> st.roots, rootTag |-> st.rootTag,
             path |-> setPath(st.path, scriptCov.url),
             functionNames |-> st.functionNames,
             functionCounts |-> st.functionCounts,
             statementCounts |-> st.statementCounts,
             funcs |-> matched, err |-> ""]
      s1 == functionLoop(scriptCov.functions, matched, 1, s0)
  IN  statementLoop(scriptCov.functions, matched, 1, s1)


(***************************************************************************)
(* resolveWrapper and unwrapScriptCov.  An element of a wrapper is a       *)
(* number or a string: a record of its type (typeof) and of its value as   *)
(* a number or as a string, whichever it is.                               *)
(***************************************************************************)
Max(a, b) == IF a >= b THEN a ELSE b

Min(a, b) == IF a <= b THEN a ELSE b

resolveWrapper(wrapper) ==
  LET prefix == wrapper[1]
      suffix == wrapper[2]
  IN  << IF prefix.type = "number" THEN prefix.number ELSE Len(prefix.string),
         IF suffix.type = "number" THEN suffix.number ELSE Len(suffix.string) >>

\* The end is shifted and not clamped.
unwrapEndOffsetUnclamped(range, bodyStart, bodyLen) == range.endOffset - bodyStart

\* Math.min(range.endOffset - bodyStart, bodyLen)
unwrapEndOffset(range, bodyStart, bodyLen) == Min(range.endOffset - bodyStart, bodyLen)

\* Math.max(range.startOffset - bodyStart, 0)
unwrapStartOffset(range, bodyStart) == Max(range.startOffset - bodyStart, 0)

\* the inner loop: the ranges of one function
RECURSIVE unwrapRanges(_, _, _, _, _)
unwrapRanges(funcRanges, j, bodyStart, bodyLen, ranges) ==
  IF j > Len(funcRanges) THEN ranges
  ELSE LET range == funcRanges[j]
           startOffset == unwrapStartOffset(range, bodyStart)
           endOffset == unwrapEndOffset(range, bodyStart, bodyLen)
       IN  IF startOffset < endOffset
           THEN unwrapRanges(funcRanges, j + 1, bodyStart, bodyLen,
                             Append(ranges, [startOffset |-> startOffset,
                                             endOffset |-> endOffset,
                                             count |-> range.count]))
           ELSE unwrapRanges(funcRanges, j + 1, bodyStart, bodyLen, ranges)

\* the outer loop: the functions of the snapshot
RECURSIVE unwrapFunctions(_, _, _, _, _)
unwrapFunctions(funcCovs, i, bodyStart, bodyLen, functions) ==
  IF i > Len(funcCovs) THEN functions
  ELSE LET func == funcCovs[i]
           ranges == unwrapRanges(func.ranges, 1, bodyStart, bodyLen, <<>>)
       IN  IF Len(ranges) > 0
           THEN unwrapFunctions(funcCovs, i + 1, bodyStart, bodyLen,
                                Append(functions, [func EXCEPT !.ranges = ranges]))
           ELSE unwrapFunctions(funcCovs, i + 1, bodyStart, bodyLen, functions)

unwrapScriptCov(scriptCov, wrapper) ==
  IF Len(scriptCov.functions) = 0 THEN [err |-> "", value |-> scriptCov]
  ELSE LET rootFunc == scriptCov.functions[1]
       IN  IF Len(rootFunc.ranges) = 0
           THEN [err |-> "InvalidScriptCov: expected 'functions[0].ranges.length > 0'",
                 value |-> <<>>]
           ELSE LET rootRange == rootFunc.ranges[1]
                    prefixLen == resolveWrapper(wrapper)[1]
                    suffixLen == resolveWrapper(wrapper)[2]
                    bodyStart == prefixLen
                    bodyEnd == rootRange.endOffset - suffixLen
                    bodyLen == bodyEnd - bodyStart
                IN  [err |-> "",
                     value |-> [scriptCov EXCEPT !.functions =
                                  unwrapFunctions(scriptCov.functions, 1, bodyStart,
                                                  bodyLen, <<>>)]]

(***************************************************************************)
(* IstambulizeScript.toIstanbul and the three report builders.  A report   *)
(* object is the sequence of its [key, value] properties in creation order.*)
(***************************************************************************)
getStatements(st) ==
  [statementMap |->
     [i \in 1..Len(st.statementCounts) |->
        [key |-> "s" \o ToString(i - 1),
         value |-> st.ast[st.statementCounts[i].key].loc]],
   s |->
     [i \in 1..Len(st.statementCounts) |->
        [key |-> "s" \o ToString(i - 1), value |-> st.statementCounts[i].value]]]

getFunctions(st) ==
  [fnMap |->
     [i \in 1..Len(st.functionCounts) |->
        LET funcNode == st.functionCounts[i].key
        IN  [key |-> "f" \o ToString(i - 1),
             value |->
               [name |-> IF MapHas(st.functionNames, funcNode)
                         THEN MapGet(st.functionNames, funcNode) ELSE "",
                decl |-> st.ast[funcNode].loc,
                loc |-> st.ast[funcNode].loc,
                line |-> st.ast[funcNode].loc.start.line]]],
   f |->
     [i \in 1..Len(st.functionCounts) |->
        [key |-> "f" \o ToString(i - 1), value |-> st.functionCounts[i].value]]]

getBranches(st) == [branchMap |-> <<>>, b |-> <<>>]

toIstanbul(st) ==
  [path |-> IF st.path # None THEN st.path[1] ELSE "",
   statementMap |-> getStatements(st).statementMap,
   s |-> getStatements(st).s,
   fnMap |-> getFunctions(st).fnMap,
   f |-> getFunctions(st).f,
   branchMap |-> getBranches(st).branchMap,
   b |-> getBranches(st).b]

(***************************************************************************)
(* Coverage snapshots given to add.  Every tree has a pool of function     *)
(* entries: an entry for the script, entries for its functions (with and   *)
(* without nested block ranges, with different counts and names) or an     *)
(* entry whose span overlaps or encloses a root without being equal to it. *)
(* A snapshot lists up to MaxFuncs of them, in any order, repetitions      *)
(* included.                                                               *)
(***************************************************************************)
R(startOffset, endOffset, count) ==
  [startOffset |-> startOffset, endOffset |-> endOffset, count |-> count]

F(functionName, ranges) ==
  [functionName |-> functionName, ranges |-> ranges, isBlockCoverage |-> TRUE]

FunctionCovs(tree) ==
  CASE tree = Tree1 ->
         { F("", <<R(0, 18, 1)>>),
           F("f", <<R(0, 18, 3), R(15, 17, 0)>>),
           F("g", <<R(12, 18, 1)>>) }
    [] tree = Tree2 ->
         { F("", <<R(0, 34, 1)>>),
           F("f", <<R(2, 34, 2), R(15, 17, 1)>>),
           F("g", <<R(17, 33, 3)>>) }
    [] tree = Tree3 ->
         { F("", <<R(0, 19, 1), R(15, 19, 0)>>),
           F("h", <<R(6, 14, 2), R(11, 13, 2)>>),
           F("", <<R(6, 14, 0), R(11, 13, 0)>>) }
    [] tree = Tree4 ->
         { F("", <<R(0, 30, 1), R(12, 16, 0)>>),
           F("f", <<R(16, 30, 4)>>),
           F("f", <<R(15, 30, 1)>>) }

Urls == {"/a.js", "/b.js"}

ScriptCovs(tree) ==
  { [scriptId |-> "1", url |-> u, functions |-> fs] :
      u \in Urls,
      fs \in UNION { [1..n -> FunctionCovs(tree)] : n \in 0..MaxFuncs } }

(***************************************************************************)
(* The sum of two snapshots of one script.  A function of a snapshot is    *)
(* known by its name and the spans of its ranges; two snapshots have the   *)
(* same function set when each function is listed as often in the one as   *)
(* in the other, in whatever order.  The entry that corresponds to an      *)
(* entry of A is the entry of B for the same function (the k-th of B for   *)
(* the k-th of A when a function is listed more than once); the sum lists  *)
(* the functions as A does, every range with the sum of the two counts,    *)
(* and keeps the script id and the url of A.                               *)
(***************************************************************************)
FunctionId(funcCov) ==
  [functionName |-> funcCov.functionName,
   spans |-> [j \in 1..Len(funcCov.ranges) |->
                <<funcCov.ranges[j].startOffset, funcCov.ranges[j].endOffset>>]]

\* how many of the first n entries of the snapshot are the function id
Occurrences(cov, id, n) ==
  Cardinality({k \in 1..n : FunctionId(cov.functions[k]) = id})

SameFunctions(a, b) ==
  /\ Len(a.functions) = Len(b.functions)
  /\ \A i \in 1..Len(a.functions) :
       Occurrences(a, FunctionId(a.functions[i]), Len(a.functions))
         = Occurrences(b, FunctionId(a.functions[i]), Len(b.functions))

\* the entry of b that corresponds to entry i of a
Corresponding(a, b, i) ==
  CHOOSE k \in 1..Len(b.functions) :
    /\ FunctionId(b.functions[k]) = FunctionId(a.functions[i])
    /\ Occurrences(b, FunctionId(a.functions[i]), k)
         = Occurrences(a, FunctionId(a.functions[i]), i)

\* a and b list their functions in the same order
SameOrder(a, b) ==
  /\ Len(a.functions) = Len(b.functions)
  /\ \A i \in 1..Len(a.functions) :
       FunctionId(a.functions[i]) = FunctionId(b.functions[i])

SumCov(a, b) ==
  [scriptId |-> a.scriptId, url |-> a.url,
   functions |->
     [i \in 1..Len(a.functions) |->
        [a.functions[i] EXCEPT !.ranges =
           [j \in 1..Len(a.functions[i].ranges) |->
              [a.functions[i].ranges[j] EXCEPT
                 !.count = @ + b.functions[Corresponding(a, b, i)].ranges[j].count]]]]]

(***************************************************************************)
(* The accumulator as a state machine: construction, then add and          *)
(* toIstanbul calls in any order.                                          *)
(***************************************************************************)
Self ==
  [ast |-> ast, roots |-> roots, rootTag |-> rootTag, path |-> path,
   functionNames |-> functionNames, functionCounts |-> functionCounts,
   statementCounts |-> statementCounts]

GcIdle == [ranges |-> <<>>, node |-> [start |-> 0, end |-> 0], called |-> FALSE,
           err |-> "", value |-> 0]

IzIdle == [options |-> <<>>, called |-> FALSE, err |-> "", result |-> <<>>]

UwIdle == [scriptCov |-> <<>>, wrapper |-> <<>>, called |-> FALSE, err |-> "",
           result |-> <<>>]

\* getCoverage is not running
HarnessIdle ==
  /\ state = ""
  /\ mainExecutionContextId = None
  /\ listeners = {}
  /\ timeoutId = "cleared"
  /\ promise = "pending"
  /\ pc = "idle"
  /\ query = "idle"
  /\ client = "none"
  /\ contexts = <<>>
  /\ enabled = FALSE
  /\ events = <<>>
  /\ uncaught = {}

Init ==
  /\ ast \in Trees
  /\ roots = Constructor(ast).roots
  /\ rootTag = Constructor(ast).rootTag
  /\ path = Constructor(ast).path
  /\ functionNames = Constructor(ast).functionNames
  /\ functionCounts = Constructor(ast).functionCounts
  /\ statementCounts = Constructor(ast).statementCounts
  /\ nAdds = 0
  /\ lastCov = None
  /\ funcs = <<>>
  /\ err = ""
  /\ fnSum = [id \in NodeIds(ast) |-> 0]
  /\ sumCov = None
  /\ reports = <<>>
  /\ lastName = [id \in NodeIds(ast) |-> None]
  /\ gc = GcIdle
  /\ iz = IzIdle
  /\ uw = UwIdle
  /\ HarnessIdle

\* script.add(scriptCov) for one snapshot
AddCov(scriptCov) ==
  /\ \E r \in {add(Self, scriptCov)} :
           /\ path' = r.path
           /\ functionNames' = r.functionNames
           /\ functionCounts' = r.functionCounts
           /\ statementCounts' = r.statementCounts
           /\ funcs' = r.funcs
           /\ err' = r.err
           /\ lastCov' = Some(scriptCov)
           /\ fnSum' = [id \in NodeIds(ast) |->
                          IF MapHas(r.funcs, id)
                          THEN fnSum[id]
                               + scriptCov.functions[MapGet(r.funcs, id)].ranges[1].count
                          ELSE fnSum[id]]
           /\ sumCov' = IF nAdds = 0 THEN Some(scriptCov)
                        ELSE IF nAdds = 1 /\ SameFunctions(sumCov[1], scriptCov)
                             THEN Some(SumCov(sumCov[1], scriptCov))
                             ELSE None
           /\ lastName' = [id \in NodeIds(ast) |->
                             IF MapHas(r.funcs, id)
                             THEN Some(scriptCov.functions[MapGet(r.funcs, id)].functionName)
                             ELSE lastName[id]]
  /\ nAdds' = nAdds + 1
  /\ reports' = <<>>
  /\ UNCHANGED <<ast, roots, rootTag, callVars, harnessVars>>

\* script.add(scriptCov)
Add ==
  /\ nAdds < MaxAdds
  /\ \E scriptCov \in ScriptCovs(ast) : AddCov(scriptCov)

\* A read that also resets the statement counts.
ToIstanbulResetting ==
  /\ reports' = IF reports = <<>> THEN <<toIstanbul(Self)>>
                ELSE <<reports[Len(reports)], toIstanbul(Self)>>
  /\ statementCounts' =
       [i \in 1..Len(statementCounts) |-> [statementCounts[i] EXCEPT !.value = 0]]
  /\ UNCHANGED <<ast, roots, rootTag, path, functionNames, functionCounts,
                 nAdds, lastCov, funcs, err, fnSum, sumCov, lastName,
                 callVars, harnessVars>>

\* script.toIstanbul(); `reports` keeps the results of the last two calls
ToIstanbul ==
  /\ reports' = IF reports = <<>> THEN <<toIstanbul(Self)>>
                ELSE <<reports[Len(reports)], toIstanbul(Self)>>
  /\ UNCHANGED <<accVars, nAdds, lastCov, funcs, err, fnSum, sumCov, lastName,
                 callVars, harnessVars>>

Next == Add \/ ToIstanbul

Spec == Init /\ [][Next]_vars

(***************************************************************************)
(* Two adds on a fresh accumulator, for the comparison with a single add   *)
(* of the sum.  The snapshots are those of ScriptCovs with one url and     *)
(* with counts that vary from snapshot to snapshot: every count is raised  *)
(* by a multiple of the position of its range.                             *)
(***************************************************************************)
Raised(scriptCov, d) ==
  [scriptCov EXCEPT !.functions =
     [i \in 1..Len(scriptCov.functions) |->
        [scriptCov.functions[i] EXCEPT !.ranges =
           [j \in 1..Len(scriptCov.functions[i].ranges) |->
              [scriptCov.functions[i].ranges[j] EXCEPT !.count = @ + d * j]]]]]

MergeCovs(tree) ==
  { Raised(scriptCov, d) :
      scriptCov \in {c \in ScriptCovs(tree) : c.url = "/a.js"},
      d \in 0..MergeMaxRaise }

\* script.add(A), then script.add(B)
AddPair ==
  /\ nAdds < 2
  /\ \E scriptCov \in MergeCovs(ast) : AddCov(scriptCov)

NextMerge == AddPair

SpecMerge == Init /\ [][NextMerge]_vars


(***************************************************************************)
(* The range matcher on its own: one call of getCount on a list of ranges  *)
(* in any order and a node span.                                           *)
(***************************************************************************)
GcSpans ==
  { sp \in (0..GcMaxOffset) \X (0..GcMaxOffset) : sp[1] < sp[2] }

GcRangeCovs == { R(sp[1], sp[2], c) : sp \in GcSpans, c \in 0..GcMaxCount }

GcRangeLists == UNION { [1..n -> GcRangeCovs] : n \in 0..GcMaxRanges }

AccIdle ==
  /\ ast = <<>>
  /\ roots = <<>>
  /\ rootTag = <<>>
  /\ path = None
  /\ functionNames = <<>>
  /\ functionCounts = <<>>
  /\ statementCounts = <<>>
  /\ nAdds = 0
  /\ lastCov = None
  /\ funcs = <<>>
  /\ err = ""
  /\ fnSum = <<>>
  /\ sumCov = None
  /\ reports = <<>>
  /\ lastName = <<>>

InitGetCount ==
  /\ AccIdle
  /\ iz = IzIdle
  /\ uw = UwIdle
  /\ HarnessIdle
  /\ \E rs \in GcRangeLists, sp \in GcSpans :
       gc = [ranges |-> rs, node |-> [start |-> sp[1], end |-> sp[2]],
             called |-> FALSE, err |-> "", value |-> 0]

\* getCount(gc.ranges, gc.node)
CallGetCount ==
  /\ ~ gc.called
  /\ \E r \in {getCount(gc.ranges, gc.node)} :
       gc' = [gc EXCEPT !.called = TRUE, !.err = r.err, !.value = r.value]
  /\ UNCHANGED <<accVars, nAdds, lastCov, funcs, err, fnSum, sumCov, reports,
                 lastName, iz, uw, harnessVars>>

NextGetCount == CallGetCount

SpecGetCount == InitGetCount /\ [][NextGetCount]_vars

(***************************************************************************)
(* istanbulize: the one-shot conversion.  Its options are a source text, a *)
(* source type and a snapshot; the parser turns the source text into the   *)
(* tree of that text (the texts below parse alike as script and as module).*)
(***************************************************************************)
SourceTexts ==
  {"function f(){1;2;}", "x;function f(){y;function g(){z;}}",
   "var h=()=>{1;};h();", "for(var i;;)f();function f(){}"}

SourceTypes == {"script", "module"}

babelParse(sourceText, sourceType) ==
  CASE sourceText = "function f(){1;2;}" -> Tree1
    [] sourceText = "x;function f(){y;function g(){z;}}" -> Tree2
    [] sourceText = "var h=()=>{1;};h();" -> Tree3
    [] sourceText = "for(var i;;)f();function f(){}" -> Tree4

istanbulize(options) ==
  LET script == Constructor(babelParse(options.sourceText, options.sourceType))
  IN  LET added == add(script, options.scriptCov)
      IN  IF added.err # "" THEN [err |-> added.err, value |-> <<>>]
          ELSE [err |-> "", value |-> toIstanbul(added)]

istanbulizeOptions ==
  UNION { { [sourceText |-> o[1], sourceType |-> o[2], scriptCov |-> c] :
              c \in ScriptCovs(babelParse(o[1], o[2])) } :
          o \in SourceTexts \X SourceTypes }

InitIstanbulize ==
  /\ AccIdle
  /\ gc = GcIdle
  /\ uw = UwIdle
  /\ HarnessIdle
  /\ \E options \in istanbulizeOptions :
       iz = [options |-> options, called |-> FALSE, err |-> "", result |-> <<>>]

\* istanbulize(iz.options)
CallIstanbulize ==
  /\ ~ iz.called
  /\ \E r \in {istanbulize(iz.options)} :
       iz' = [iz EXCEPT !.called = TRUE, !.err = r.err, !.result = r.value]
  /\ UNCHANGED <<accVars, ghostVars, gc, uw, harnessVars>>

NextIstanbulize == CallIstanbulize

SpecIstanbulize == InitIstanbulize /\ [][NextIstanbulize]_vars

(***************************************************************************)
(* unwrapScriptCov on its own: one call on a snapshot and a wrapper.  A    *)
(* snapshot has up to two functions with up to two ranges each (a function *)
(* without ranges included); the ranges take every span up to UwMaxOffset  *)
(* and every range has a count of its own, 10 * i + j for range j of       *)
(* function i.  A wrapper gives the prefix and the suffix as a number or   *)
(* as a string of that length.                                             *)
(***************************************************************************)
UwSpans ==
  { sp \in (0..UwMaxOffset) \X (0..UwMaxOffset) : sp[1] < sp[2] }

\* the number of ranges of each function
UwShapes == {<<>>, <<0>>, <<1>>, <<2>>, <<0, 1>>, <<1, 0>>, <<1, 1>>, <<2, 1>>, <<1, 2>>}

UwFunctionCovs(i, n) ==
  { [functionName |-> "f" \o ToString(i), isBlockCoverage |-> TRUE,
     ranges |-> [j \in 1..n |-> R(sps[j][1], sps[j][2], 10 * i + j)]] :
      sps \in [1..n -> UwSpans] }

UwScriptCovs ==
  UNION { { [scriptId |-> "1", url |-> "/a.js", functions |-> fs] :
              fs \in { f \in [1..Len(shape) -> UNION { UwFunctionCovs(i, shape[i]) :
                                                        i \in 1..Len(shape) }] :
                         \A i \in 1..Len(shape) : f[i] \in UwFunctionCovs(i, shape[i]) } } :
          shape \in UwShapes }

RECURSIVE StringOfLength(_)
StringOfLength(n) == IF n = 0 THEN "" ELSE "(" \o StringOfLength(n - 1)

UwWrapperElements(maxLen) ==
  { [type |-> "number", number |-> n, string |-> ""] : n \in 0..maxLen }
    \cup { [type |-> "string", number |-> 0, string |-> StringOfLength(n)] :
              n \in 0..maxLen }

UwWrappers == UwWrapperElements(UwMaxPrefix) \X UwWrapperElements(UwMaxSuffix)

InitUnwrap ==
  /\ AccIdle
  /\ gc = GcIdle
  /\ iz = IzIdle
  /\ HarnessIdle
  /\ \E scriptCov \in UwScriptCovs, wrapper \in UwWrappers :
       uw = [scriptCov |-> scriptCov, wrapper |-> wrapper, called |-> FALSE,
             err |-> "", result |-> <<>>]

\* unwrapScriptCov(uw.scriptCov, uw.wrapper)
CallUnwrapScriptCov ==
  /\ ~ uw.called
  /\ \E r \in {unwrapScriptCov(uw.scriptCov, uw.wrapper)} :
       uw' = [uw EXCEPT !.called = TRUE, !.err = r.err, !.result = r.value]
  /\ UNCHANGED <<accVars, ghostVars, gc, iz, harnessVars>>

NextUnwrap == CallUnwrapScriptCov

SpecUnwrap == InitUnwrap /\ [][NextUnwrap]_vars

(***************************************************************************)
(* getCoverage, the fixture generator's capture of coverage from an        *)
(* inspected process.  The executor of its promise, the two listeners, the *)
(* timer callback and the continuation of onContextDestruction are the     *)
(* steps of the program; the inspected process creates and destroys up to  *)
(* MaxContexts execution contexts and, once its Runtime domain is enabled, *)
(* reports them on the connection: the contexts that exist when the domain *)
(* is enabled, in an order of its own choice, then every creation and the  *)
(* destruction of every context it reported, as they happen.  A command    *)
(* awaited on the client is answered while the client is open, fails at    *)
(* any time, or is never answered.                                         *)
(***************************************************************************)
Created == "Runtime.executionContextCreated"

Destroyed == "Runtime.executionContextDestroyed"

ContextIds == 1..MaxContexts

ExecutorAwaits ==
  {"cri", "Profiler.enable", "Profiler.startPreciseCoverage", "Debugger.enable",
   "Runtime.enable"}

QueryAwaits ==
  {"HeapProfiler.collectGarbage", "Profiler.takePreciseCoverage",
   "Debugger.getScriptSource"}

\* resolve(...) or reject(...) on a promise: only the first call settles it
settle(p, outcome) == IF p = "pending" THEN outcome ELSE p

\* removeListeners() with the timer in state `timer`: with `client` undefined
\* its first statement throws a TypeError and nothing is done
removeListeners(timer) ==
  IF client = "none"
  THEN [listeners |-> listeners, timeoutId |-> timer, client |-> client,
        threw |-> "TypeError"]
  ELSE [listeners |-> {},
        timeoutId |-> IF timer = "set" THEN "cleared" ELSE timer,
        client |-> "closed",
        threw |-> ""]

\* the creation events that answer Runtime.enable: one for every context
\* that exists, in any order (the order is the inspected process's choice)
ReportExisting(ctxs) ==
  LET existing == {c \in DOMAIN ctxs : ctxs[c] = "alive"}
      orders == {f \in [1..Cardinality(existing) -> existing] :
                   \A i, j \in DOMAIN f : f[i] = f[j] => i = j}
  IN  {[i \in DOMAIN f |-> [method |-> Created, id |-> f[i]]] : f \in orders}

InitGetCoverage ==
  /\ AccIdle
  /\ gc = GcIdle
  /\ iz = IzIdle
  /\ uw = UwIdle
  /\ state = "WaitingForMainContext"
  /\ mainExecutionContextId = None
  /\ listeners = {}
  /\ timeoutId = "set"
  /\ promise = "pending"
  /\ pc = "cri"
  /\ query = "idle"
  /\ client = "none"
  /\ contexts = [c \in ContextIds |-> "none"]
  /\ enabled = FALSE
  /\ events = <<>>
  /\ uncaught = {}

\* the inspected process creates its next execution context
ContextCreated ==
  \E c \in ContextIds :
    /\ contexts[c] = "none"
    /\ (c > 1 => contexts[c - 1] # "none")
    /\ IF enabled /\ client = "open"
       THEN /\ contexts' = [contexts EXCEPT ![c] = "reported"]
            /\ events' = Append(events, [method |-> Created, id |-> c])
       ELSE /\ contexts' = [contexts EXCEPT ![c] = "alive"]
            /\ events' = events
    /\ UNCHANGED <<state, mainExecutionContextId, listeners, timeoutId, promise,
                   pc, query, client, enabled, uncaught>>
    /\ UNCHANGED <<accVars, ghostVars, callVars>>

\* the inspected process destroys an execution context
ContextDestroyed ==
  \E c \in ContextIds :
    /\ contexts[c] \in {"alive", "reported"}
    /\ contexts' = [contexts EXCEPT ![c] = "gone"]
    /\ events' = IF contexts[c] = "reported" /\ enabled /\ client = "open"
                 THEN Append(events, [method |-> Destroyed, id |-> c])
                 ELSE events
    /\ UNCHANGED <<state, mainExecutionContextId, listeners, timeoutId, promise,
                   pc, query, client, enabled, uncaught>>
    /\ UNCHANGED <<accVars, ghostVars, callVars>>

\* client = await cri({port})
CriResolved ==
  /\ pc = "cri"
  /\ client' = "open"
  /\ pc' = "Profiler.enable"
  /\ UNCHANGED <<state, mainExecutionContextId, listeners, timeoutId, promise,
                 query, contexts, enabled, events, uncaught>>
  /\ UNCHANGED <<accVars, ghostVars, callVars>>

\* Profiler.enable and Profiler.startPreciseCoverage are answered
ExecutorResumed ==
  /\ pc \in {"Profiler.enable", "Profiler.startPreciseCoverage"}
  /\ client = "open"
  /\ pc' = IF pc = "Profiler.enable" THEN "Profiler.startPreciseCoverage"
           ELSE "Debugger.enable"
  /\ UNCHANGED <<state, mainExecutionContextId, listeners, timeoutId, promise,
                 query, client, contexts, enabled, events, uncaught>>
  /\ UNCHANGED <<accVars, ghostVars, callVars>>

\* Debugger.enable is answered: the executor registers the two listeners and
\* sends Runtime.enable
ListenersRegistered ==
  /\ pc = "Debugger.enable"
  /\ client = "open"
  /\ listeners' = listeners \cup {Created, Destroyed}
  /\ pc' = "Runtime.enable"
  /\ enabled' = TRUE
  /\ \E reported \in ReportExisting(contexts) : events' = events \o reported
  /\ contexts' = [c \in ContextIds |->
                    IF contexts[c] = "alive" THEN "reported" ELSE contexts[c]]
  /\ UNCHANGED <<state, mainExecutionContextId, timeoutId, promise, query, client,
                 uncaught>>
  /\ UNCHANGED <<accVars, ghostVars, callVars>>

\* Runtime.enable is answered: the executor ends
ExecutorEnded ==
  /\ pc = "Runtime.enable"
  /\ client = "open"
  /\ pc' = "end"
  /\ UNCHANGED <<state, mainExecutionContextId, listeners, timeoutId, promise,
                 query, client, contexts, enabled, events, uncaught>>
  /\ UNCHANGED <<accVars, ghostVars, callVars>>

\* an awaited call of the executor fails: catch (err) { removeListeners(); reject(err); }
ExecutorCaught ==
  /\ pc \in ExecutorAwaits
  /\ pc' = "caught"
  /\ \E r \in {removeListeners(timeoutId)} :
       /\ listeners' = r.listeners
       /\ timeoutId' = r.timeoutId
       /\ client' = r.client
       /\ IF r.threw # ""
          THEN /\ uncaught' = uncaught \cup {[name |-> r.threw, from |-> "executor"]}
               /\ promise' = promise
          ELSE /\ uncaught' = uncaught
               /\ promise' = settle(promise, "rejected")
  /\ UNCHANGED <<state, mainExecutionContextId, query, contexts, enabled, events>>
  /\ UNCHANGED <<accVars, ghostVars, callVars>>

\* the timer fires
onTimeout ==
  /\ timeoutId = "set"
  /\ \E r \in {removeListeners("fired")} :
       /\ listeners' = r.listeners
       /\ timeoutId' = r.timeoutId
       /\ client' = r.client
       /\ IF r.threw # ""
          THEN /\ uncaught' = uncaught \cup {[name |-> r.threw, from |-> "onTimeout"]}
               /\ promise' = promise
          ELSE /\ uncaught' = uncaught
               /\ promise' = settle(promise, "rejected")
  /\ UNCHANGED <<state, mainExecutionContextId, pc, query, contexts, enabled, events>>
  /\ UNCHANGED <<accVars, ghostVars, callVars>>

\* the client emits Runtime.executionContextCreated to the `once` listener
onMainContextCreation ==
  /\ client = "open"
  /\ events # <<>>
  /\ Head(events).method = Created
  /\ Created \in listeners
  /\ events' = Tail(events)
  /\ listeners' = listeners \ {Created}
  /\ IF state = "WaitingForMainContext"
     THEN /\ mainExecutionContextId' = Some(Head(events).id)
          /\ state' = "WaitingForMainContextDestruction"
          /\ uncaught' = uncaught
     ELSE /\ uncaught' = uncaught \cup
                           {[name |-> "AssertionError", from |-> "onMainContextCreation"]}
          /\ UNCHANGED <<mainExecutionContextId, state>>
  /\ UNCHANGED <<timeoutId, promise, pc, query, client, contexts, enabled>>
  /\ UNCHANGED <<accVars, ghostVars, callVars>>

\* the client emits Runtime.executionContextDestroyed to the listener, which
\* runs up to its first await
onContextDestruction ==
  /\ client = "open"
  /\ events # <<>>
  /\ Head(events).method = Destroyed
  /\ Destroyed \in listeners
  /\ events' = Tail(events)
  /\ IF state # "WaitingForMainContextDestruction"
     THEN /\ uncaught' = uncaught \cup
                           {[name |-> "AssertionError", from |-> "onContextDestruction"]}
          /\ UNCHANGED <<state, query>>
     ELSE IF Some(Head(events).id) # mainExecutionContextId
          THEN UNCHANGED <<state, query, uncaught>>
          ELSE /\ state' = "WaitingForCoverage"
               /\ query' = "HeapProfiler.collectGarbage"
               /\ uncaught' = uncaught
  /\ UNCHANGED <<mainExecutionContextId, listeners, timeoutId, promise, pc, client,
                 contexts, enabled>>
  /\ UNCHANGED <<accVars, ghostVars, callVars>>

\* the client emits an event that has no listener
EventWithoutListener ==
  /\ client = "open"
  /\ events # <<>>
  /\ Head(events).method \notin listeners
  /\ events' = Tail(events)
  /\ UNCHANGED <<state, mainExecutionContextId, listeners, timeoutId, promise,
                 pc, query, client, contexts, enabled, uncaught>>
  /\ UNCHANGED <<accVars, ghostVars, callVars>>

\* onContextDestruction goes on after collectGarbage, or after
\* takePreciseCoverage with a list that is not empty
QueryResumed ==
  /\ query \in {"HeapProfiler.collectGarbage", "Profiler.takePreciseCoverage"}
  /\ client = "open"
  /\ query' = IF query = "HeapProfiler.collectGarbage" THEN "Profiler.takePreciseCoverage"
              ELSE "Debugger.getScriptSource"
  /\ UNCHANGED <<state, mainExecutionContextId, listeners, timeoutId, promise,
                 pc, client, contexts, enabled, events, uncaught>>
  /\ UNCHANGED <<accVars, ghostVars, callVars>>

\* onContextDestruction has the source of the last script (or an empty
\* coverage list): resolve(result), then finally { removeListeners(); }
QueryCompleted ==
  /\ query \in {"Profiler.takePreciseCoverage", "Debugger.getScriptSource"}
  /\ client = "open"
  /\ query' = "end"
  /\ promise' = settle(promise, "resolved")
  /\ \E r \in {removeListeners(timeoutId)} :
       /\ listeners' = r.listeners
       /\ timeoutId' = r.timeoutId
       /\ client' = r.client
  /\ UNCHANGED <<state, mainExecutionContextId, pc, contexts, enabled, events,
                 uncaught>>
  /\ UNCHANGED <<accVars, ghostVars, callVars>>

\* an awaited call of onContextDestruction fails: reject(err), then
\* finally { removeListeners(); }
QueryCaught ==
  /\ query \in QueryAwaits
  /\ query' = "end"
  /\ promise' = settle(promise, "rejected")
  /\ \E r \in {removeListeners(timeoutId)} :
       /\ listeners' = r.listeners
       /\ timeoutId' = r.timeoutId
       /\ client' = r.client
  /\ UNCHANGED <<state, mainExecutionContextId, pc, contexts, enabled, events,
                 uncaught>>
  /\ UNCHANGED <<accVars, ghostVars, callVars>>

NextGetCoverage ==
  \/ ContextCreated
  \/ ContextDestroyed
  \/ CriResolved
  \/ ExecutorResumed
  \/ ListenersRegistered
  \/ ExecutorEnded
  \/ ExecutorCaught
  \/ onTimeout
  \/ onMainContextCreation
  \/ onContextDestruction
  \/ EventWithoutListener
  \/ QueryResumed
  \/ QueryCompleted
  \/ QueryCaught

SpecGetCoverage == InitGetCoverage /\ [][NextGetCoverage]_vars

(***************************************************************************)
(* Properties of the range matcher.                                        *)
(***************************************************************************)
Size(rangeCov) == rangeCov.endOffset - rangeCov.startOffset

\* the positions of the ranges that enclose the node of the call
GcEnclosing == { i \in 1..Len(gc.ranges) : Encloses(gc.ranges[i], gc.node) }

\* the enclosing ranges of smallest size
GcInnermost ==
  { i \in GcEnclosing : \A j \in GcEnclosing : Size(gc.ranges[i]) <= Size(gc.ranges[j]) }

StrictlyEncloses(a, b) ==
  /\ a.startOffset <= b.startOffset
  /\ b.endOffset <= a.endOffset
  /\ Size(b) < Size(a)

Disjoint(a, b) == a.endOffset <= b.startOffset \/ b.endOffset <= a.startOffset

Nested(a, b) ==
  \/ a.startOffset <= b.startOffset /\ b.endOffset <= a.endOffset
  \/ b.startOffset <= a.startOffset /\ a.endOffset <= b.endOffset

\* the ranges form a tree and every range is listed after the ranges that
\* strictly enclose it (the order in which V8 reports them)
OuterToInner(ranges) ==
  /\ \A i, j \in 1..Len(ranges) : Disjoint(ranges[i], ranges[j]) \/ Nested(ranges[i], ranges[j])
  /\ \A i, j \in 1..Len(ranges) : i < j => ~ StrictlyEncloses(ranges[j], ranges[i])

\* C2 as stated: whatever the order of the list, a node enclosed by some range
\* gets the count of an innermost (smallest) enclosing range.
C2_InnermostAnyOrder ==
  (gc.called /\ GcEnclosing # {}) =>
     /\ gc.err = ""
     /\ \E i \in GcInnermost : gc.value = gc.ranges[i].count

\* C2 amended: when the ranges are nested or disjoint and listed outer to
\* inner, a node enclosed by some range gets the count of an innermost
\* (smallest) enclosing range.
C2_InnermostOuterToInner ==
  (gc.called /\ GcEnclosing # {} /\ OuterToInner(gc.ranges)) =>
     /\ gc.err = ""
     /\ \E i \in GcInnermost : gc.value = gc.ranges[i].count

\* a call on an outer-to-inner list in which two ranges of different size and
\* count enclose the node, answered with the count of the smaller one
C2_Witness ==
  /\ gc.called
  /\ OuterToInner(gc.ranges)
  /\ \E i, j \in GcEnclosing :
       /\ i < j
       /\ StrictlyEncloses(gc.ranges[i], gc.ranges[j])
       /\ gc.ranges[i].count # gc.ranges[j].count
       /\ gc.err = ""
       /\ gc.value = gc.ranges[j].count


\* range i of the call starts at or before the node and ends at or after it
GcCovers(i) ==
  gc.ranges[i].startOffset <= gc.node.start /\ gc.node.end <= gc.ranges[i].endOffset

\* C15: the scan of the range matcher.  The call fails with CountNotFound
\* exactly when no range of the list starts at or before the node and ends
\* at or after it; otherwise it returns the count of the last-listed range
\* that does, a range equal to the node span included.
C15_LastListedWins ==
  gc.called =>
     IF \A i \in 1..Len(gc.ranges) : ~ GcCovers(i)
     THEN gc.err = "Count not found"
     ELSE /\ gc.err = ""
          /\ \E i \in 1..Len(gc.ranges) :
               /\ GcCovers(i)
               /\ \A j \in (i + 1)..Len(gc.ranges) : ~ GcCovers(j)
               /\ gc.value = gc.ranges[i].count

\* a call where a range equal to the node span is listed after a larger
\* enclosing range of another count: the count returned is that of the equal
\* range
C15_Witness ==
  /\ gc.called
  /\ gc.err = ""
  /\ \E i, j \in 1..Len(gc.ranges) :
       /\ i < j
       /\ GcCovers(i)
       /\ Size(gc.ranges[i]) > gc.node.end - gc.node.start
       /\ gc.ranges[j].startOffset = gc.node.start
       /\ gc.ranges[j].endOffset = gc.node.end
       /\ gc.ranges[i].count # gc.ranges[j].count
       /\ gc.value = gc.ranges[j].count

(***************************************************************************)
(* Properties of the accumulator.                                          *)
(***************************************************************************)
FunctionRoots == { id \in NodeIds(ast) : isFunction(ast, id) }

RootIds == { roots[i] : i \in 1..Len(roots) }

\* the entry of the last snapshot matched to a root of funcs
MatchedCov(root) == lastCov[1].functions[MapGet(funcs, root)]

MatchedIndices(matched) == { matched[i].value : i \in 1..Len(matched) }

\* a step that is a call of add
IsAddStep == nAdds' = nAdds + 1

\* C3 as claimed: merge equivalence for identical function sets.  When the
\* two snapshots added to a fresh accumulator have the same function set,
\* in whatever order each lists it, the statement and function counts equal
\* those of a fresh accumulator after a single add of their sum, the sum
\* listing the functions in some order.
C3_MergeAnyOrder ==
  (nAdds = 2 /\ sumCov # None) =>
     \E order \in {f \in [1..Len(sumCov[1].functions) -> 1..Len(sumCov[1].functions)] :
                     \A i, j \in DOMAIN f : f[i] = f[j] => i = j} :
        \E single \in {add(Constructor(ast),
                           [sumCov[1] EXCEPT !.functions =
                              [i \in DOMAIN order |-> sumCov[1].functions[order[i]]]])} :
           /\ statementCounts = single.statementCounts
           /\ functionCounts = single.functionCounts

\* C3, amended: merge equivalence for identical function lists.  When the
\* two snapshots added to a fresh accumulator list the same functions, with
\* the same range spans, in the same order, the statement and function
\* counts equal those of a fresh accumulator after a single add of their
\* sum, which lists the functions in that order.
C3_MergeEquivalence ==
  (nAdds = 2 /\ sumCov # None /\ SameOrder(sumCov[1], lastCov[1])) =>
     \E single \in {add(Constructor(ast), sumCov[1])} :
        /\ statementCounts = single.statementCounts
        /\ functionCounts = single.functionCounts

\* two adds of snapshots that list the same two functions in the same order
\* with different counts, and statements and functions counted by both
C3_Witness ==
  /\ nAdds = 2
  /\ sumCov # None
  /\ SameOrder(sumCov[1], lastCov[1])
  /\ Len(lastCov[1].functions) = 2
  /\ FunctionId(lastCov[1].functions[1]) # FunctionId(lastCov[1].functions[2])
  /\ \E i \in 1..Len(lastCov[1].functions) :
       \E j \in 1..Len(lastCov[1].functions[i].ranges) :
          sumCov[1].functions[i].ranges[j].count
             # 2 * lastCov[1].functions[i].ranges[j].count
  /\ \E i \in 1..Len(statementCounts) : statementCounts[i].value >= 2
  /\ \E i \in 1..Len(functionCounts) : functionCounts[i].value >= 2

\* C4: monotonic counts.  No step decreases the count of a statement or of a
\* function, and every key stays.
C4_MonotonicCounts ==
  [][ /\ \A i \in 1..Len(statementCounts) :
           /\ MapHas(statementCounts', statementCounts[i].key)
           /\ MapGet(statementCounts', statementCounts[i].key) >= statementCounts[i].value
      /\ \A i \in 1..Len(functionCounts) :
           /\ MapHas(functionCounts', functionCounts[i].key)
           /\ MapGet(functionCounts', functionCounts[i].key) >= functionCounts[i].value
    ]_vars

\* a second add that reports count 0 for a function counted before
C4_Witness ==
  /\ nAdds >= 2
  /\ \E i \in 1..Len(funcs) :
       /\ isFunction(ast, funcs[i].key)
       /\ MatchedCov(funcs[i].key).ranges[1].count = 0
       /\ MapGet(functionCounts, funcs[i].key) > 0
       /\ \E k \in 1..Len(statementCounts) :
            /\ rootTag[statementCounts[k].key] = funcs[i].key
            /\ statementCounts[k].value > 0

\* C5: exact-span matching.  Every root of funcs is matched to an entry whose
\* ranges[0] starts at the root's start and ends at the root's end.
C5_ExactSpan ==
  \A i \in 1..Len(funcs) :
     /\ MatchedCov(funcs[i].key).ranges[1].startOffset = ast[funcs[i].key].start
     /\ MatchedCov(funcs[i].key).ranges[1].endOffset = ast[funcs[i].key].end

\* an add whose snapshot holds an entry that encloses a root without being
\* equal to it, that root and that entry both left unmatched, beside a match
C5_Witness ==
  /\ nAdds >= 1
  /\ funcs # <<>>
  /\ \E j \in 1..Len(lastCov[1].functions), root \in RootIds :
       /\ j \notin MatchedIndices(funcs)
       /\ ~ MapHas(funcs, root)
       /\ SpanEncloses(lastCov[1].functions[j].ranges[1], ast[root])
       /\ ~ SpanEquals(lastCov[1].functions[j].ranges[1], ast[root])

RECURSIVE KeepIndices(_, _, _)
KeepIndices(seq, keep, i) ==
  IF i > Len(seq) THEN <<>>
  ELSE IF i \in keep THEN <<seq[i]>> \o KeepIndices(seq, keep, i + 1)
  ELSE KeepIndices(seq, keep, i + 1)

\* the snapshot without the entries that matchFunctions leaves unmatched
WithoutUnmatched(scriptCov, matched) ==
  [scriptCov EXCEPT
     !.functions = KeepIndices(scriptCov.functions, MatchedIndices(matched), 1)]

\* C6: one-to-one partial mapping.  In every add no entry is matched to two
\* roots and no root to two entries, the matched roots are roots and the
\* matched entries are entries of the snapshot; the call raises no error and
\* ends in the state it would reach without the unmatched entries.
C6_OneToOne ==
  [][ IsAddStep =>
        /\ \A i, j \in 1..Len(funcs') :
             i # j => /\ funcs'[i].value # funcs'[j].value
                      /\ funcs'[i].key # funcs'[j].key
        /\ \A i \in 1..Len(funcs') :
             /\ funcs'[i].key \in RootIds
             /\ funcs'[i].value \in 1..Len(lastCov'[1].functions)
        /\ err' = ""
        /\ \E r \in {add(Self, WithoutUnmatched(lastCov'[1], funcs'))} :
             /\ r.err = ""
             /\ r.path = path'
             /\ r.functionNames = functionNames'
             /\ r.functionCounts = functionCounts'
             /\ r.statementCounts = statementCounts'
    ]_vars

\* an add of two entries with the same span of which one is matched and the
\* other is left over
C6_Witness ==
  /\ nAdds >= 1
  /\ err = ""
  /\ \E i \in MatchedIndices(funcs) :
       \E j \in (1..Len(lastCov[1].functions)) \ MatchedIndices(funcs) :
          /\ lastCov[1].functions[i].ranges[1].startOffset
               = lastCov[1].functions[j].ranges[1].startOffset
          /\ lastCov[1].functions[i].ranges[1].endOffset
               = lastCov[1].functions[j].ranges[1].endOffset
          /\ lastCov[1].functions[i] # lastCov[1].functions[j]

\* C7: a root without a match.  An add raises no error and, for every root
\* that its snapshot does not match, leaves the root's function count, its
\* recorded name and the counts of the statements tagged with it as they were.
C7_UnmatchedRootUnchanged ==
  [][ IsAddStep =>
        /\ err' = ""
        /\ \A root \in RootIds :
             ~ MapHas(funcs', root) =>
                /\ MapHas(functionCounts, root) =>
                     MapGet(functionCounts', root) = MapGet(functionCounts, root)
                /\ MapHas(functionNames', root) = MapHas(functionNames, root)
                /\ MapHas(functionNames, root) =>
                     MapGet(functionNames', root) = MapGet(functionNames, root)
                /\ \A i \in 1..Len(statementCounts) :
                     rootTag[statementCounts[i].key] = root =>
                        statementCounts'[i] = statementCounts[i]
    ]_vars

\* after an add that matched the enclosing root but not a nested function,
\* the nested function still has the count, the name and the statement count
\* it got from an earlier add
C7_Witness ==
  /\ nAdds = 2
  /\ \E root \in FunctionRoots :
       /\ ~ MapHas(funcs, root)
       /\ MapHas(funcs, rootTag[ast[root].parent])
       /\ MapGet(functionCounts, root) > 0
       /\ MapHas(functionNames, root)
       /\ \E i \in 1..Len(statementCounts) :
            /\ rootTag[statementCounts[i].key] = root
            /\ statementCounts[i].value > 0

\* C8: function counts.  The count of each function root is the sum of
\* ranges[0].count of the entries matched to it so far; the keys of
\* functionCounts are the function nodes, the program is not among them, and
\* the report's f and fnMap have one entry per function with that count.
C8_FunctionCountIsSum ==
  /\ \A i \in 1..Len(functionCounts) :
        /\ functionCounts[i].value = fnSum[functionCounts[i].key]
        /\ ~ isProgram(ast, functionCounts[i].key)
  /\ { functionCounts[i].key : i \in 1..Len(functionCounts) } = FunctionRoots
  /\ \E rep \in {toIstanbul(Self)} :
        /\ Len(rep.f) = Cardinality(FunctionRoots)
        /\ Len(rep.fnMap) = Cardinality(FunctionRoots)
        /\ \A i \in 1..Len(rep.f) : rep.f[i].value = functionCounts[i].value

\* two adds that both matched a function, each with a count of 1 or more,
\* the second one matching the program too
C8_Witness ==
  /\ nAdds = 2
  /\ \E root \in FunctionRoots :
       /\ MapHas(funcs, root)
       /\ MatchedCov(root).ranges[1].count >= 1
       /\ MapGet(functionCounts, root) > MatchedCov(root).ranges[1].count
  /\ \E i \in 1..Len(funcs) : isProgram(ast, funcs[i].key)

\* C9: order stability.  The keys of statementCounts and of functionCounts,
\* in iteration order, are those of construction, and the report binds the
\* ids s0.. and f0.. to the source locations it bound them to at construction.
C9_OrderStability ==
  \E c \in {Constructor(ast)} :
    \E rep \in {toIstanbul(Self)}, rep0 \in {toIstanbul(c)} :
       /\ MapKeys(statementCounts) = MapKeys(c.statementCounts)
       /\ MapKeys(functionCounts) = MapKeys(c.functionCounts)
       /\ rep.statementMap = rep0.statementMap
       /\ MapKeys(rep.s) = MapKeys(rep0.s)
       /\ MapKeys(rep.f) = MapKeys(rep0.f)
       /\ MapKeys(rep.fnMap) = MapKeys(rep0.fnMap)
       /\ \A i \in 1..Len(rep.fnMap) :
            /\ rep.fnMap[i].value.loc = rep0.fnMap[i].value.loc
            /\ rep.fnMap[i].value.decl = rep0.fnMap[i].value.decl
            /\ rep.fnMap[i].value.line = rep0.fnMap[i].value.line

\* two adds that counted the first of several functions and the first of
\* several statements
C9_Witness ==
  /\ nAdds = 2
  /\ Len(functionCounts) >= 2
  /\ functionCounts[1].value > 0
  /\ Len(statementCounts) >= 2
  /\ statementCounts[1].value > 0
  /\ statementCounts[Len(statementCounts)].value > 0

\* C10: idempotent read.  A call of toIstanbul changes nothing of the
\* accumulator and, when no add came since the previous call, returns the
\* report that the previous call returned.
C10_IdempotentRead ==
  [][ (nAdds' = nAdds /\ reports' # reports) =>
        /\ accVars' = accVars
        /\ reports # <<>> => reports'[Len(reports')] = reports[Len(reports)]
    ]_vars

\* two reads after an add that counted something
C10_Witness ==
  /\ nAdds >= 1
  /\ Len(reports) = 2
  /\ reports[1] = reports[2]
  /\ \E i \in 1..Len(reports[2].s) : reports[2].s[i].value > 0
  /\ \E i \in 1..Len(reports[2].f) : reports[2].f[i].value > 0

\* C11: the report's path.  The path of the report is the empty string as
\* long as add was never called, and the url of the snapshot of the most
\* recent add after that.
C11_PathLastWins ==
  \E rep \in {toIstanbul(Self)} :
     rep.path = IF nAdds = 0 THEN "" ELSE lastCov[1].url

\* two adds of snapshots with different urls (the summed snapshot keeps
\* the url of the first), and a report that has the url of the second
C11_Witness ==
  /\ nAdds = 2
  /\ Len(reports) >= 1
  /\ reports[Len(reports)].path = lastCov[1].url
  /\ sumCov # None
  /\ sumCov[1].url # lastCov[1].url

\* C12: the names of the report.  The name of every function in fnMap is
\* the functionName of the entry matched to it in the most recent add that
\* matched it, and the empty string when no add matched it.
C12_NameLastMatched ==
  \E rep \in {toIstanbul(Self)} :
     /\ Len(rep.fnMap) = Len(functionCounts)
     /\ \A i \in 1..Len(rep.fnMap) :
          rep.fnMap[i].value.name =
             IF lastName[functionCounts[i].key] = None THEN ""
             ELSE lastName[functionCounts[i].key][1]

\* two adds on a tree with two functions: one function was matched by both,
\* the other only by the first and keeps the name it got then, while the
\* report shows both names
C12_Witness ==
  /\ nAdds = 2
  /\ \E kept, again \in FunctionRoots :
       /\ ~ MapHas(funcs, kept)
       /\ lastName[kept] # None
       /\ lastName[kept][1] # ""
       /\ MapGet(functionNames, kept) = lastName[kept][1]
       /\ MapHas(funcs, again)
       /\ fnSum[again] > MatchedCov(again).ranges[1].count
       /\ MapGet(functionNames, again) = MatchedCov(again).functionName

\* the nearest function or program node above a node, the node itself
\* excluded; 0 when there is none
RECURSIVE NearestRootAbove(_, _)
NearestRootAbove(tree, id) ==
  IF tree[id].parent = 0 THEN 0
  ELSE IF tree[tree[id].parent].type \in FunctionTypes \cup {"Program"}
       THEN tree[id].parent
       ELSE NearestRootAbove(tree, tree[id].parent)

\* C16: nearest-root association.  Every statement counted is tagged with
\* one root, the nearest function or program node that encloses it, and an
\* add increases its count by the range matcher's count over the ranges of
\* the entry matched to that root, and by nothing when that root has no
\* match, whatever is matched to the roots around it.
C16_NearestRoot ==
  [][ IsAddStep =>
        \A i \in 1..Len(statementCounts) :
           \E statement \in {statementCounts[i].key} :
              \E root \in {NearestRootAbove(ast, statement)} :
                 /\ root # 0
                 /\ root \in RootIds
                 /\ rootTag[statement] = root
                 /\ statementCounts'[i].key = statement
                 /\ statementCounts'[i].value - statementCounts[i].value =
                      IF MapHas(funcs', root)
                      THEN getCount(lastCov'[1].functions[MapGet(funcs', root)].ranges,
                                    ast[statement]).value
                      ELSE 0
    ]_vars

\* an add that matched a root but not a function nested in it: a statement
\* of the outer root is counted, a statement of the nested function is not,
\* although a range of the outer entry encloses it with a count above 0
C16_Witness ==
  /\ nAdds = 1
  /\ \E inner \in FunctionRoots :
       \E outer \in {NearestRootAbove(ast, inner)} :
          /\ ~ MapHas(funcs, inner)
          /\ MapHas(funcs, outer)
          /\ \E i, j \in 1..Len(statementCounts) :
               /\ rootTag[statementCounts[i].key] = outer
               /\ statementCounts[i].value > 0
               /\ rootTag[statementCounts[j].key] = inner
               /\ statementCounts[j].value = 0
               /\ getCount(MatchedCov(outer).ranges, ast[statementCounts[j].key]).value > 0

\* C17: UnknownNode is unreachable.  After construction every root that is
\* not the program is a key of functionCounts, with count 0 before the first
\* add; in every state reached by adds the roots that matchFunctions
\* returned are roots of the accumulator, those that are not the program are
\* keys of functionCounts, and no add raised UnknownNode.
C17_UnknownNodeUnreachable ==
  /\ \A i \in 1..Len(roots) :
        ast[roots[i]].type # "Program" => MapHas(functionCounts, roots[i])
  /\ nAdds = 0 => \A i \in 1..Len(functionCounts) : functionCounts[i].value = 0
  /\ \A i \in 1..Len(funcs) :
        /\ \E k \in 1..Len(roots) : roots[k] = funcs[i].key
        /\ ast[funcs[i].key].type # "Program" => MapHas(functionCounts, funcs[i].key)
  /\ err # "UnknownNode"

\* an add that matched a function that is not a declaration, and the
\* program, and counted the function
C17_Witness ==
  /\ nAdds >= 1
  /\ err = ""
  /\ \E i, j \in 1..Len(funcs) :
       /\ ast[funcs[i].key].type = "ArrowFunctionExpression"
       /\ MapGet(functionCounts, funcs[i].key) > 0
       /\ ast[funcs[j].key].type = "Program"

(***************************************************************************)
(* Properties of istanbulize.                                              *)
(***************************************************************************)
\* the scenario: "function f(){1;2;}" and one entry that spans f with count 3
\* and has a nested range of count 0 over `2;`
IzScenario ==
  /\ iz.options.sourceText = "function f(){1;2;}"
  /\ iz.options.scriptCov.functions = <<F("f", <<R(0, 18, 3), R(15, 17, 0)>>)>>

\* C13: istanbulize.  The result of istanbulize is the report of a fresh
\* accumulator after one add of the snapshot; in it the count of every
\* function is ranges[0].count of the entry matched to it (0 without a
\* match) and the count of every statement is the range matcher's count over
\* the ranges of the entry matched to its nearest root (0 without a match);
\* for "function f(){1;2;}" with f counted 3 and a nested range of count 0
\* over `2;` the statement counts are 3 and 0 and the function count is 3.
C13_Istanbulize ==
  iz.called =>
    \E script \in {Constructor(babelParse(iz.options.sourceText, iz.options.sourceType))} :
      \E matched \in {matchFunctions(script.ast, script.roots,
                                     iz.options.scriptCov.functions)} :
        /\ iz.err = ""
        /\ iz.result = toIstanbul(add(script, iz.options.scriptCov))
        /\ Len(iz.result.f) = Len(script.functionCounts)
        /\ \A i \in 1..Len(iz.result.f) :
             iz.result.f[i].value =
               IF MapHas(matched, script.functionCounts[i].key)
               THEN iz.options.scriptCov.functions[
                      MapGet(matched, script.functionCounts[i].key)].ranges[1].count
               ELSE 0
        /\ Len(iz.result.s) = Len(script.statementCounts)
        /\ \A i \in 1..Len(iz.result.s) :
             iz.result.s[i].value =
               IF MapHas(matched, script.rootTag[script.statementCounts[i].key])
               THEN getCount(
                      iz.options.scriptCov.functions[
                        MapGet(matched, script.rootTag[script.statementCounts[i].key])].ranges,
                      script.ast[script.statementCounts[i].key]).value
               ELSE 0
        /\ IzScenario =>
             /\ [i \in 1..Len(iz.result.s) |-> iz.result.s[i].value] = <<3, 0>>
             /\ [i \in 1..Len(iz.result.f) |-> iz.result.f[i].value] = <<3>>

(***************************************************************************)
(* Properties of unwrapScriptCov.                                          *)
(***************************************************************************)
\* every function has ranges and its ranges[0] encloses all the others
UwWellFormed(scriptCov) ==
  \A i \in 1..Len(scriptCov.functions) :
     /\ Len(scriptCov.functions[i].ranges) > 0
     /\ \A j \in 1..Len(scriptCov.functions[i].ranges) :
          /\ scriptCov.functions[i].ranges[1].startOffset
               <= scriptCov.functions[i].ranges[j].startOffset
          /\ scriptCov.functions[i].ranges[j].endOffset
               <= scriptCov.functions[i].ranges[1].endOffset

UwPrefixLen ==
  IF uw.wrapper[1].type = "number" THEN uw.wrapper[1].number ELSE Len(uw.wrapper[1].string)

UwSuffixLen ==
  IF uw.wrapper[2].type = "number" THEN uw.wrapper[2].number ELSE Len(uw.wrapper[2].string)

UwBodyLen ==
  uw.scriptCov.functions[1].ranges[1].endOffset - UwSuffixLen - UwPrefixLen

\* the range shifted left by the prefix length and clamped to [0, bodyLen]
UwShifted(range) ==
  [startOffset |-> IF range.startOffset - UwPrefixLen < 0 THEN 0
                   ELSE range.startOffset - UwPrefixLen,
   endOffset |-> IF range.endOffset - UwPrefixLen > UwBodyLen THEN UwBodyLen
                 ELSE range.endOffset - UwPrefixLen,
   count |-> range.count]

\* the ranges of input function i that are not empty after the shift
UwKeptRanges(i) ==
  { j \in 1..Len(uw.scriptCov.functions[i].ranges) :
      UwShifted(uw.scriptCov.functions[i].ranges[j]).startOffset
        < UwShifted(uw.scriptCov.functions[i].ranges[j]).endOffset }

\* the input functions that keep a range
UwKeptFunctions == { i \in 1..Len(uw.scriptCov.functions) : UwKeptRanges(i) # {} }

\* the position of x among the elements of S in increasing order
Rank(S, x) == Cardinality({ y \in S : y <= x })

\* C14: unwrapScriptCov.  A snapshot without functions is returned as it
\* is.  For a snapshot in which ranges[0] of every function encloses its
\* other ranges, and any prefix and suffix length, the call raises no error;
\* the output lists, in the order of the input, the functions that keep a
\* range and for each of them the ranges that are not empty after being
\* shifted left by the prefix length and clamped to [0, bodyLen], with the
\* shifted and clamped offsets and the count of the input; every output
\* function has a range, every output range has
\* 0 <= startOffset < endOffset <= bodyLen, and ranges[0] of every output
\* function encloses its other ranges.
C14_UnwrapWellFormed ==
  /\ (uw.called /\ Len(uw.scriptCov.functions) = 0) =>
        (uw.err = "" /\ uw.result = uw.scriptCov)
  /\ (uw.called /\ Len(uw.scriptCov.functions) > 0 /\ UwWellFormed(uw.scriptCov)) =>
        /\ uw.err = ""
        /\ uw.result.scriptId = uw.scriptCov.scriptId
        /\ uw.result.url = uw.scriptCov.url
        /\ Len(uw.result.functions) = Cardinality(UwKeptFunctions)
        /\ \A i \in UwKeptFunctions :
             \E o \in {uw.result.functions[Rank(UwKeptFunctions, i)]} :
                /\ o.functionName = uw.scriptCov.functions[i].functionName
                /\ o.isBlockCoverage = uw.scriptCov.functions[i].isBlockCoverage
                /\ Len(o.ranges) = Cardinality(UwKeptRanges(i))
                /\ \A j \in UwKeptRanges(i) :
                     o.ranges[Rank(UwKeptRanges(i), j)]
                       = UwShifted(uw.scriptCov.functions[i].ranges[j])
        /\ UwWellFormed(uw.result)
        /\ \A i \in 1..Len(uw.result.functions) :
             \A j \in 1..Len(uw.result.functions[i].ranges) :
                /\ 0 <= uw.result.functions[i].ranges[j].startOffset
                /\ uw.result.functions[i].ranges[j].startOffset
                     < uw.result.functions[i].ranges[j].endOffset
                /\ uw.result.functions[i].ranges[j].endOffset <= UwBodyLen

\* a call with a prefix and a suffix on a well-formed snapshot of two
\* functions: one function is dropped, the other had two ranges and keeps
\* one, and that one is cut at both ends
C14_Witness ==
  /\ uw.called
  /\ uw.err = ""
  /\ UwWellFormed(uw.scriptCov)
  /\ UwPrefixLen > 0
  /\ UwSuffixLen > 0
  /\ Len(uw.scriptCov.functions) = 2
  /\ Len(uw.result.functions) = 1
  /\ \E i \in 1..2 :
       /\ Len(uw.scriptCov.functions[i].ranges) = 2
       /\ uw.result.functions[1].functionName = uw.scriptCov.functions[i].functionName
       /\ Len(uw.result.functions[1].ranges) = 1
       /\ uw.result.functions[1].ranges[1].startOffset = 0
       /\ uw.scriptCov.functions[i].ranges[1].startOffset < UwPrefixLen
       /\ uw.result.functions[1].ranges[1].endOffset = UwBodyLen
       /\ uw.scriptCov.functions[i].ranges[1].endOffset - UwPrefixLen > UwBodyLen

(***************************************************************************)
(* Properties of getCoverage.                                              *)
(***************************************************************************)
\* C18: the state assertions of getCoverage.  Whatever the order of the
\* creations and destructions of execution contexts, no call of
\* onMainContextCreation and no call of onContextDestruction fails its
\* assertion on `state`.
C18_AssertionsHold ==
  \A e \in uncaught : e.name # "AssertionError"

====
